---- MODULE Spec2Model ----
(***************************************************************************)
(* A model of nike_scraper.py: the listing harvest (collect_all_products), *)
(* the record normaliser (parse_product_from_json, fmt_price), the         *)
(* qualification filter and the enrichment loop of main.                   *)
(*                                                                         *)
(* Python lists of dicts are lists of references: all_products is the heap *)
(* of product records, and tagged / valid / completed hold indices into    *)
(* it, so that an in-place update of a product is seen through every list. *)
(***************************************************************************)
EXTENDS Integers, Sequences, FiniteSets, TLC

\* ------------------------------------------------------------ configuration
API_PAGE_SIZE == 24
MAX_ERRORS == 15
CHECKPOINT_EVERY == 25
MIN_REVIEWS == 150
TOP_N == 20

\* JSON null (Python None) where a number is expected; prices are never negative.
null == -1

\* Bounds of the model: groups per response, API pages the listing reports,
\* and checkpoint intervals a long enrichment spans.
MaxGroups == 2
MaxPages == 2
MaxBatches == 2
MaxVariants == 3
MaxRanked == 4

\* ------------------------------------------------------------ text helpers
Digit(d) == SubSeq("0123456789", d + 1, d + 1)

RECURSIVE Dec(_)
Dec(n) == IF n < 10 THEN Digit(n) ELSE Dec(n \div 10) \o Digit(n % 10)

Pad3(n) == Digit(n \div 100) \o Digit((n \div 10) % 10) \o Digit(n % 10)

\* f"{value:,}": decimal digits in groups of three separated by commas
RECURSIVE Grouped(_)
Grouped(n) == IF n < 1000 THEN Dec(n) ELSE Grouped(n \div 1000) \o "," \o Pad3(n % 1000)

\* str.strip() for the blank the model uses
RECURSIVE Strip(_)
Strip(s) ==
    IF Len(s) = 0 THEN s
    ELSE IF SubSeq(s, 1, 1) = " " THEN Strip(SubSeq(s, 2, Len(s)))
    ELSE IF SubSeq(s, Len(s), Len(s)) = " " THEN Strip(SubSeq(s, 1, Len(s) - 1))
    ELSE s

Ch(s, i) == SubSeq(s, i, i)

\* index of the first c at or after i, or 0
RECURSIVE FindFrom(_, _, _)
FindFrom(s, c, i) ==
    IF i > Len(s) THEN 0 ELSE IF Ch(s, i) = c THEN i ELSE FindFrom(s, c, i + 1)

\* re.sub(r"<[^>]+>", " ", s)
RECURSIVE StripTagsFrom(_, _)
StripTagsFrom(s, i) ==
    IF i > Len(s) THEN ""
    ELSE IF Ch(s, i) = "<"
    THEN LET j == FindFrom(s, ">", i + 1)
         IN  IF j >= i + 2 THEN " " \o StripTagsFrom(s, j + 1)
             ELSE "<" \o StripTagsFrom(s, i + 1)
    ELSE Ch(s, i) \o StripTagsFrom(s, i + 1)

\* re.sub(r"\s+", " ", s)
RECURSIVE CollapseFrom(_, _)
CollapseFrom(s, i) ==
    IF i > Len(s) THEN ""
    ELSE IF Ch(s, i) = " " /\ i < Len(s) /\ Ch(s, i + 1) = " " THEN CollapseFrom(s, i + 1)
    ELSE Ch(s, i) \o CollapseFrom(s, i + 1)

CleanDescription(desc) == CollapseFrom(Strip(StripTagsFrom(desc, 1)), 1)

\* ", ".join(parts)
RECURSIVE Join(_)
Join(parts) ==
    IF Len(parts) = 0 THEN ""
    ELSE IF Len(parts) = 1 THEN parts[1]
    ELSE parts[1] \o ", " \o Join(Tail(parts))

\* end of the longest run of characters of set cs starting at i (i - 1 if none)
RECURSIVE RunEnd(_, _, _)
RunEnd(s, cs, i) ==
    IF i <= Len(s) /\ Ch(s, i) \in cs THEN RunEnd(s, cs, i + 1) ELSE i - 1

DigitChars == {"0", "1", "2", "3", "4", "5", "6", "7", "8", "9"}

\* re.search(r"([\d.]+)\s*stars?", html): group 1 of the leftmost match, or ""
RECURSIVE SearchStars(_, _)
SearchStars(html, i) ==
    IF i > Len(html) THEN ""
    ELSE LET e == RunEnd(html, DigitChars \cup {"."}, i)
             q == RunEnd(html, {" "}, e + 1) + 1
         IN  IF e >= i /\ q + 3 <= Len(html) /\ SubSeq(html, q, q + 3) = "star"
             THEN SubSeq(html, i, e)
             ELSE SearchStars(html, i + 1)

\* re.search(r"Reviews\s*\((\d+)\)", raw): group 1 of the leftmost match, or ""
RECURSIVE SearchReviews(_, _)
SearchReviews(raw, i) ==
    IF i + 6 > Len(raw) THEN ""
    ELSE LET q == RunEnd(raw, {" "}, i + 7) + 1
             e == RunEnd(raw, DigitChars, q + 1)
         IN  IF /\ SubSeq(raw, i, i + 6) = "Reviews"
                /\ q <= Len(raw) /\ Ch(raw, q) = "("
                /\ e >= q + 1
                /\ e + 1 <= Len(raw) /\ Ch(raw, e + 1) = ")"
             THEN SubSeq(raw, q + 1, e)
             ELSE SearchReviews(raw, i + 1)

fmt_price(value) ==
    IF value = null \/ value = 0 THEN "" ELSE "₱" \o Grouped(value)

\* ------------------------------------------------------------ raw records
Variant(code, badge, initial, current) ==
    [productCode |-> code, badgeLabel |-> badge,
     initialPrice |-> initial, currentPrice |-> current,
     url |-> "https://www.nike.com/ph/t/" \o code,
     portraitURL |-> "img/" \o code, title |-> "Shoe " \o code,
     colorDescription |-> "Black", promoTitle |-> ""]

\* A productGrouping is its list of colourway variants.  The groups offered:
\* two style codes, tagged or not and discounted or not, one without a pdpUrl,
\* a group with two colourways, a group with none, and one whose current price
\* is null.
Groupings ==
    {<<>>,
     <<[Variant("DV0833", "Just In", 1000, 800) EXCEPT !.promoTitle = "Member Offer"]>>,
     <<Variant("DV0833", " ", 1000, 800)>>,
     <<[Variant("FQ1234", "Sale ", 1200, 800) EXCEPT !.url = ""]>>,
     <<Variant("FQ1234", "Sale", 1000, 1000), Variant("FQ1234", "", 1000, 1000)>>,
     <<Variant("FQ1234", "", 1000, null)>>}

RECURSIVE SeqsUpTo(_, _)
SeqsUpTo(S, n) ==
    IF n = 0 THEN {<<>>}
    ELSE LET shorter == SeqsUpTo(S, n - 1)
         IN  shorter \cup {Append(s, x) : s \in {t \in shorter : Len(t) = n - 1}, x \in S}

\* the productGroupings list of one response or of the snapshot
Pages == SeqsUpTo(Groupings, MaxGroups)

\* pageData.totalResources
TotalChoices ==
    {0, null, API_PAGE_SIZE + 6, API_PAGE_SIZE * 2, API_PAGE_SIZE * (MaxPages + 1)}

\* ------------------------------------------------------------ normaliser
NoItem == [kind |-> "none"]
Raises == [kind |-> "raise"]

parse_product_from_json_unguarded(grouping) ==
    IF Len(grouping) = 0 THEN Raises
    ELSE LET p == grouping[1]
             num_colors == Len(grouping)
         IN  IF p.initialPrice = null \/ p.currentPrice = null THEN Raises
             ELSE [kind |-> "item",
                   item |-> [Product_URL |-> p.url,
                             Product_Image_URL |-> p.portraitURL,
                             Product_Tagging |-> Strip(p.badgeLabel),
                             Product_Name |-> p.title,
                             Product_Description |-> "",
                             Original_Price |-> fmt_price(p.initialPrice),
                             Discount_Price |->
                                 IF p.currentPrice < p.initialPrice /\ p.currentPrice > 0
                                 THEN fmt_price(p.currentPrice) ELSE "",
                             Sizes_Available |-> "",
                             Vouchers |-> Strip(p.promoTitle),
                             Available_Colors |-> Dec(num_colors) \o " "
                                 \o (IF num_colors = 1 THEN "Colour" ELSE "Colours"),
                             Color_Shown |-> p.colorDescription,
                             Style_Code |-> p.productCode,
                             Rating_Score |-> "",
                             Review_Count |-> ""]]

parse_product_from_json(grouping) ==
    IF Len(grouping) = 0 THEN NoItem
    ELSE LET p == grouping[1]
             num_colors == Len(grouping)
             initial_price == p.initialPrice
             current_price == p.currentPrice
         IN  \* None < int raises TypeError
             IF initial_price = null \/ current_price = null THEN Raises
             ELSE LET has_discount == current_price < initial_price /\ current_price > 0
                  IN [kind |-> "item",
                      item |-> [Product_URL |-> p.url,
                                Product_Image_URL |-> p.portraitURL,
                                Product_Tagging |-> Strip(p.badgeLabel),
                                Product_Name |-> p.title,
                                Product_Description |-> "",
                                Original_Price |-> fmt_price(initial_price),
                                Discount_Price |-> IF has_discount THEN fmt_price(current_price) ELSE "",
                                Sizes_Available |-> "",
                                Vouchers |-> Strip(p.promoTitle),
                                Available_Colors |-> Dec(num_colors) \o " "
                                    \o (IF num_colors = 1 THEN "Colour" ELSE "Colours"),
                                Color_Shown |-> p.colorDescription,
                                Style_Code |-> p.productCode,
                                Rating_Score |-> "",
                                Review_Count |-> ""]]

\* ------------------------------------------------------------ state
VARIABLES
    pc,                 \* position in main / collect_all_products
    raised,             \* the exception that left collect_all_products, or "none"
    raw_json,           \* what the page gave for the __NEXT_DATA__ element
    total_resources,
    all_products,       \* the accumulated products (the heap of product dicts)
    seen_codes,
    anchor,
    consecutive_errors,
    last,               \* the last loop iteration: its request, its answer, what was done
    okPages,            \* successful non-empty responses so far
    streak,             \* failed fetch attempts since the last successful one (SpecCounting)
    tagged,             \* main: references to the tagged products
    valid,              \* main: references to the enrichment input
    completed,          \* main: references to the visited products
    output_csv,         \* OUTPUT_CSV
    checkpoint_csv,     \* CHECKPOINT_CSV
    observed            \* the last call of scrape_pdp, of parse_product_from_json and
                        \* of create_top20_rating_csv, and TOP20_CSV

vars == <<pc, raised, raw_json, total_resources, all_products, seen_codes, anchor,
          consecutive_errors, last, okPages, streak,
          tagged, valid, completed, output_csv, checkpoint_csv, observed>>

\* the frame of collect_all_products
harvestVars == <<raw_json, total_resources, all_products, seen_codes, anchor,
                 consecutive_errors, last, okPages, streak>>
mainVars == <<tagged, valid, completed, output_csv, checkpoint_csv, observed>>

\* the last call of scrape_pdp: the product as passed, the page met
lastVisit == observed.lastVisit
\* parse_product_from_json: its argument and its result
grouping == observed.grouping
parsed == observed.parsed
\* create_top20_rating_csv: its argument, and TOP20_CSV
top20_input == observed.top20_input
top20_csv == observed.top20_csv

\* a CSV file: absent, or written with these rows
Absent == [exists |-> FALSE, rows |-> <<>>]
File(rows) == [exists |-> TRUE, rows |-> rows]

\* scrape_pdp not called yet
NoVisit == [ref |-> 0]

\* not called
Pending == <<"pending">>

\* none of the three functions called yet
Unobserved ==
    [lastVisit |-> NoVisit, grouping |-> <<>>, parsed |-> Pending,
     top20_input |-> <<>>, top20_csv |-> Absent]

\* no request issued yet
NoFetch ==
    [kind |-> "none", anchor |-> 0, status |-> 0, records |-> 0, empties |-> 0,
     items |-> 0, added |-> 0, refresh |-> "none", wait |-> "none", retry |-> FALSE]

Init ==
    /\ pc = "start"
    /\ raised = "none"
    /\ raw_json = "unread"
    /\ total_resources = 0
    /\ all_products = <<>>
    /\ seen_codes = {}
    /\ anchor = 0
    /\ consecutive_errors = 0
    /\ last = NoFetch
    /\ okPages = 0
    /\ streak = 0
    /\ tagged = <<>>
    /\ valid = <<>>
    /\ completed = <<>>
    /\ output_csv = Absent
    /\ checkpoint_csv = Absent
    /\ observed = Unobserved

\* ------------------------------------------------------------ harvest
\* parse_product_from_json of every group offered, computed once
Normalised == [g \in Groupings |-> parse_product_from_json(g)]

\* add_groupings: the closure over all_products and seen_codes.  A record that
\* makes the normaliser raise stops the loop with what was added so far kept.
\* items counts the records that normalised to a product, added or not.
RECURSIVE add_groupings_no_dedup(_, _, _, _, _)
add_groupings_no_dedup(groupings, products, seen, count, items) ==
    IF Len(groupings) = 0
    THEN [all_products |-> products, seen_codes |-> seen, count |-> count,
          items |-> items, raised |-> FALSE]
    ELSE LET prod == Normalised[Head(groupings)]
         IN  IF prod.kind = "raise"
             THEN [all_products |-> products, seen_codes |-> seen, count |-> count,
                   items |-> items, raised |-> TRUE]
             ELSE IF prod.kind = "item"
             THEN add_groupings_no_dedup(Tail(groupings), Append(products, prod.item),
                                         seen \cup {prod.item.Style_Code}, count + 1, items + 1)
             ELSE add_groupings_no_dedup(Tail(groupings), products, seen, count, items)

RECURSIVE add_groupings(_, _, _, _, _)
add_groupings(groupings, products, seen, count, items) ==
    IF Len(groupings) = 0
    THEN [all_products |-> products, seen_codes |-> seen, count |-> count,
          items |-> items, raised |-> FALSE]
    ELSE LET prod == Normalised[Head(groupings)]
         IN  IF prod.kind = "raise"
             THEN [all_products |-> products, seen_codes |-> seen, count |-> count,
                   items |-> items, raised |-> TRUE]
             ELSE IF prod.kind = "item" /\ prod.item.Style_Code \notin seen
             THEN add_groupings(Tail(groupings), Append(products, prod.item),
                                seen \cup {prod.item.Style_Code}, count + 1, items + 1)
             ELSE add_groupings(Tail(groupings), products, seen, count,
                                items + (IF prod.kind = "item" THEN 1 ELSE 0))

\* what page.evaluate returns for the __NEXT_DATA__ element: no element (null),
\* an element with no text, text that is not the expected JSON, or the wall
Snapshots ==
    {[text |-> t, totalResources |-> 0, productGroupings |-> <<>>] :
        t \in {"absent", "empty", "malformed"}}
    \cup {[text |-> "wall", totalResources |-> t, productGroupings |-> g] :
        t \in TotalChoices, g \in Pages}

RaiseAndCarryOn(exc) ==
    /\ pc' = "collected"
    /\ raised' = exc

\* an exception leaves collect_all_products and, uncaught in main, ends the run
Raise(exc) ==
    /\ pc' = "raised"
    /\ raised' = exc

\* if not raw_json
SnapshotMissing(snap) == snap.text \in {"absent", "empty"}

LoopConditionAnchorOnly(a, total, errors) == a < total

LoopConditionInclusive(a, total, errors) == a <= total /\ errors < MAX_ERRORS

\* while anchor < total_resources and consecutive_errors < MAX_ERRORS
LoopCondition(a, total, errors) == a < total /\ errors < MAX_ERRORS

\* collect_all_products up to the first evaluation of the loop condition
HarvestInit ==
    /\ pc = "start"
    /\ \E snap \in Snapshots :
        /\ raw_json' = snap.text
        /\ IF SnapshotMissing(snap)
           THEN /\ Raise("RuntimeError")
                /\ UNCHANGED <<total_resources, all_products, seen_codes, anchor,
                               consecutive_errors, last, okPages, streak>>
           ELSE IF snap.text # "wall"
           THEN \* json.loads or the key lookups raise
                /\ Raise("JSONDecodeError")
                /\ UNCHANGED <<total_resources, all_products, seen_codes, anchor,
                               consecutive_errors, last, okPages, streak>>
           ELSE LET first == add_groupings(snap.productGroupings, <<>>, {}, 0, 0)
                IN  /\ total_resources' = snap.totalResources
                    /\ all_products' = first.all_products
                    /\ seen_codes' = first.seen_codes
                    /\ last' = [NoFetch EXCEPT !.kind = "snapshot",
                                                !.records = Len(snap.productGroupings),
                                                !.empties = Len(SelectSeq(snap.productGroupings,
                                                                          LAMBDA g : Len(g) = 0)),
                                                !.items = first.items,
                                                !.added = first.count]
                    /\ UNCHANGED <<okPages, streak>>
                    /\ IF first.raised
                       THEN \* the normaliser raised on a record of the snapshot
                            /\ Raise("TypeError")
                            /\ UNCHANGED <<anchor, consecutive_errors>>
                       ELSE \E warmupOk \in BOOLEAN :
                            IF ~warmupOk
                            THEN \* page.evaluate of the warm-up scroll raised
                                 /\ Raise("PlaywrightError")
                                 /\ UNCHANGED <<anchor, consecutive_errors>>
                            ELSE /\ anchor' = API_PAGE_SIZE
                                 /\ consecutive_errors' = 0
                                 /\ IF snap.totalResources = null
                                    THEN Raise("TypeError")   \* int < None
                                    ELSE pc' = "loop" /\ UNCHANGED raised
    /\ UNCHANGED mainVars

\* the answers of context.request.get and resp.json
Statuses == {200, 403, 429}
Responses ==
    {[kind |-> "transport", status |-> 0, groups |-> <<>>]}
    \cup {[kind |-> "http", status |-> s, groups |-> <<>>] : s \in Statuses \ {200}}
    \cup {[kind |-> "badjson", status |-> 200, groups |-> <<>>]}
    \cup {[kind |-> "http", status |-> 200, groups |-> g] : g \in Pages}

\* resp.ok
Ok(resp) == resp.status >= 200 /\ resp.status <= 299

ExhaustedNever(groups) == FALSE

\* if not groups: break
Exhausted(groups) == Len(groups) = 0

AfterPageByCount(a, errors, added) == [anchor |-> a + added, consecutive_errors |-> 0]

AfterPageResetIfNew(a, errors, added) ==
    [anchor |-> a + API_PAGE_SIZE,
     consecutive_errors |-> IF added > 0 THEN 0 ELSE errors]

\* anchor += API_PAGE_SIZE; consecutive_errors = 0
AfterPage(a, errors, added) == [anchor |-> a + API_PAGE_SIZE, consecutive_errors |-> 0]

RecoveryRefreshFirst(status, errors) ==
    IF errors % 3 = 0 THEN "refresh"
    ELSE IF status = 429 THEN "cooldown"
    ELSE "backoff"

RecoveryBeforeIncrement(status, errors) ==
    IF status = 429 THEN "cooldown"
    ELSE IF (errors - 1) % 3 = 0 THEN "refresh"
    ELSE "backoff"

\* what follows a non-OK response, errors being the count after the increment
Recovery(status, errors) ==
    IF status = 429 THEN "cooldown"
    ELSE IF errors % 3 = 0 THEN "refresh"
    ELSE "backoff"

\* what an iteration leaves in last
\* how many groups of a response have no variant
Variantless(groups) == Len(SelectSeq(groups, LAMBDA g : Len(g) = 0))

Did(kind, resp, r, refresh, wait) ==
    [kind |-> kind, anchor |-> anchor,
     status |-> IF kind = "status" THEN resp.status ELSE 0,
     records |-> Len(resp.groups), empties |-> Variantless(resp.groups),
     items |-> r.items, added |-> r.count,
     refresh |-> refresh, wait |-> wait, retry |-> consecutive_errors > 0]

Nothing == [items |-> 0, count |-> 0]

\* the body of the while loop, on the answer resp of the request
Iteration(resp) ==
        IF resp.kind \in {"transport", "badjson"}
        THEN \* context.request.get or resp.json raised: except Exception
             /\ consecutive_errors' = consecutive_errors + 1
             /\ last' = Did("exception", resp, Nothing, "none", "short")
             /\ UNCHANGED <<pc, raised, all_products, seen_codes, anchor, okPages>>
        ELSE IF Ok(resp)
        THEN IF Exhausted(resp.groups)
             THEN \* break
                  /\ pc' = "collected"
                  /\ last' = Did("empty", resp, Nothing, "none", "none")
                  /\ UNCHANGED <<raised, all_products, seen_codes, anchor,
                                 consecutive_errors, okPages>>
             ELSE LET r == add_groupings(resp.groups, all_products, seen_codes, 0, 0)
                      after == AfterPage(anchor, consecutive_errors, r.count)
                  IN  /\ all_products' = r.all_products
                      /\ seen_codes' = r.seen_codes
                      /\ IF r.raised
                         THEN \* the normaliser raised: except Exception
                              /\ consecutive_errors' = consecutive_errors + 1
                              /\ last' = Did("badrecord", resp, r, "none", "short")
                              /\ UNCHANGED <<anchor, okPages>>
                         ELSE /\ anchor' = after.anchor
                              /\ consecutive_errors' = after.consecutive_errors
                              /\ last' = Did("page", resp, r, "none", "jitter")
                              /\ okPages' = okPages + 1
                      /\ UNCHANGED <<pc, raised>>
        ELSE LET errs == consecutive_errors + 1
                 recovery == Recovery(resp.status, errs)
             IN  /\ IF recovery = "cooldown"
                    THEN /\ consecutive_errors' = errs
                         /\ last' = Did("status", resp, Nothing, "none", "long")
                    ELSE IF recovery = "refresh"
                    THEN \E refreshOk \in BOOLEAN :
                         IF refreshOk
                         THEN /\ consecutive_errors' = errs
                              /\ last' = Did("status", resp, Nothing, "done", "settle")
                         ELSE \* page.goto raised inside the try: except Exception
                              /\ consecutive_errors' = errs + 1
                              /\ last' = Did("status", resp, Nothing, "failed", "short")
                    ELSE /\ consecutive_errors' = errs
                         /\ last' = Did("status", resp, Nothing, "none", "short")
                 /\ UNCHANGED <<pc, raised, all_products, seen_codes, anchor, okPages>>

\* one iteration of the while loop
Fetch ==
    /\ pc = "loop"
    /\ LoopCondition(anchor, total_resources, consecutive_errors)
    /\ \E resp \in Responses : Iteration(resp)
    /\ UNCHANGED <<raw_json, total_resources>>
    /\ UNCHANGED mainVars

FetchPage ==
    /\ Fetch
    /\ UNCHANGED streak

\* the same iteration, observed with the count of failed attempts
FetchPageCounted ==
    /\ Fetch
    /\ streak' = IF last'.kind = "page" THEN 0
                 ELSE IF last'.kind = "empty" THEN streak
                 ELSE streak + 1

\* one answer of every kind the loop tells apart: a raise of the request or of
\* resp.json, an error status, a success with no groups, and a success with
\* one group (a product, a group without variants, a record that raises)
Outcomes == {resp \in Responses : Len(resp.groups) <= 1}

\* the counted iteration, on one of these answers
FetchOutcomeCounted ==
    /\ pc = "loop"
    /\ LoopCondition(anchor, total_resources, consecutive_errors)
    /\ \E resp \in Outcomes : Iteration(resp)
    /\ UNCHANGED <<raw_json, total_resources>>
    /\ UNCHANGED mainVars
    /\ streak' = IF last'.kind = "page" THEN 0
                 ELSE IF last'.kind = "empty" THEN streak
                 ELSE streak + 1

\* the loop condition is false: print the total and return all_products
LoopExit ==
    /\ pc = "loop"
    /\ ~LoopCondition(anchor, total_resources, consecutive_errors)
    /\ pc' = "collected"
    /\ UNCHANGED <<raised, harvestVars, mainVars>>

\* ------------------------------------------------------------ detail page
\* A locator on the detail page: what count() and the read of the first match do.
Loc(state, text) == [state |-> state, text |-> text]
Missing == Loc("missing", "")
Broken == Loc("raise", "")

\* safe_text: "" when nothing matches or the read raises
safe_text(locator) ==
    IF locator.state = "found" THEN Strip(locator.text) ELSE ""

\* labels of the sizes with status ACTIVE or LOW, each with its prefix
RECURSIVE AvailableSizes(_, _)
AvailableSizes(sizes_list, prefix) ==
    IF Len(sizes_list) = 0 THEN <<>>
    ELSE LET sz == Head(sizes_list)
             label == IF sz.localizedLabel # "" THEN sz.localizedLabel ELSE sz.label
             lp == IF sz.hasPrefix THEN sz.localizedLabelPrefix ELSE prefix
             rest == AvailableSizes(Tail(sizes_list), prefix)
         IN  IF sz.status \in {"ACTIVE", "LOW"} /\ label # ""
             THEN <<IF lp # "" THEN lp \o " " \o label ELSE label>> \o rest
             ELSE rest

\* sizes of the skus not marked unavailable (older detail-page format)
RECURSIVE SkuSizes(_)
SkuSizes(skus) ==
    IF Len(skus) = 0 THEN <<>>
    ELSE LET sk == Head(skus)
             rest == SkuSizes(Tail(skus))
         IN  IF sk.available
             THEN <<IF sk.localizedSize # "" THEN sk.localizedSize ELSE sk.nikeSize>> \o rest
             ELSE rest

RECURSIVE StripAll(_)
StripAll(texts) ==
    IF Len(texts) = 0 THEN <<>>
    ELSE LET t == Strip(Head(texts))
         IN  (IF t # "" THEN <<t>> ELSE <<>>) \o StripAll(Tail(texts))

\* the selectedProduct block of the embedded JSON
FromSelectedProduct(product, sp) ==
    IF ~sp.present THEN product
    ELSE LET desc == IF sp.productDescription # "" THEN sp.productDescription
                     ELSE IF sp.reasonToBuy # "" THEN sp.reasonToBuy
                     ELSE sp.subtitle
             p1 == IF desc # ""
                   THEN [product EXCEPT !.Product_Description = CleanDescription(desc)]
                   ELSE product
             available == AvailableSizes(sp.sizes, sp.localizedLabelPrefix)
         IN  IF Len(sp.sizes) > 0 /\ Len(available) > 0
             THEN [p1 EXCEPT !.Sizes_Available = Join(available)]
             ELSE p1

FromInitialStateUnguarded(product, state) ==
    IF ~state.present THEN product
    ELSE LET usable == SelectSeq(<<state.product, state.Product>>,
                                 LAMBDA o : o.kind = "dict")
         IN  IF Len(usable) = 0 THEN product
             ELSE LET pdp_product == usable[1]
                      d == IF pdp_product.descriptionPreview # ""
                           THEN pdp_product.descriptionPreview
                           ELSE pdp_product.description
                      p1 == IF d # ""
                            THEN [product EXCEPT !.Product_Description = Strip(d)]
                            ELSE product
                      sz == SkuSizes(pdp_product.skus)
                  IN  IF Len(pdp_product.skus) > 0 /\ Len(sz) > 0
                      THEN [p1 EXCEPT !.Sizes_Available = Join(sz)]
                      ELSE p1

\* the initialState block: the first of product / Product that is a non-empty dict
FromInitialState(product, state) ==
    IF ~state.present THEN product
    ELSE LET usable == SelectSeq(<<state.product, state.Product>>,
                                 LAMBDA o : o.kind = "dict")
         IN  IF Len(usable) = 0 THEN product
             ELSE LET pdp_product == usable[1]
                      d == IF pdp_product.descriptionPreview # ""
                           THEN pdp_product.descriptionPreview
                           ELSE pdp_product.description
                      p1 == IF product.Product_Description = "" /\ d # ""
                            THEN [product EXCEPT !.Product_Description = Strip(d)]
                            ELSE product
                      sz == SkuSizes(pdp_product.skus)
                  IN  IF p1.Sizes_Available = "" /\ Len(pdp_product.skus) > 0 /\ Len(sz) > 0
                      THEN [p1 EXCEPT !.Sizes_Available = Join(sz)]
                      ELSE p1

FromNextDataEitherShape(product, page) ==
    IF page.next_data = "json"
    THEN IF page.sp.present THEN FromSelectedProduct(product, page.sp)
         ELSE FromInitialState(product, page.state)
    ELSE product

\* lines 278-331: the embedded JSON, with its own try / except
FromNextData(product, page) ==
    IF page.next_data = "json"
    THEN FromInitialState(FromSelectedProduct(product, page.sp), page.state)
    ELSE product      \* no element, or json.loads raised JSONDecodeError

FromDomPromoAsTagging(product, page) ==
    LET p1 == IF product.Product_Description = ""
              THEN LET desc == safe_text(page.dom_description)
                   IN  [product EXCEPT !.Product_Description =
                            IF desc # "" THEN desc ELSE safe_text(page.dom_preview)]
              ELSE product
        p2 == IF p1.Sizes_Available = "" /\ page.dom_sizes.state = "found"
              THEN [p1 EXCEPT !.Sizes_Available = Join(StripAll(page.dom_sizes.labels))]
              ELSE p1
    IN  IF p2.Vouchers = ""
        THEN [p2 EXCEPT !.Product_Tagging = safe_text(page.dom_promo)]
        ELSE p2

\* lines 333-356: the DOM fallbacks
FromDom(product, page) ==
    LET p1 == IF product.Product_Description = ""
              THEN LET desc == safe_text(page.dom_description)
                   IN  [product EXCEPT !.Product_Description =
                            IF desc # "" THEN desc ELSE safe_text(page.dom_preview)]
              ELSE product
        p2 == IF p1.Sizes_Available = "" /\ page.dom_sizes.state = "found"
              THEN [p1 EXCEPT !.Sizes_Available = Join(StripAll(page.dom_sizes.labels))]
              ELSE p1
    IN  IF p2.Vouchers = ""
        THEN [p2 EXCEPT !.Vouchers = safe_text(page.dom_promo)]
        ELSE p2

\* lines 363-405: rating and review count
FromReviews(product, page) ==
    LET p1 == IF page.meta_rating.state = "found" /\ page.meta_rating.text # ""
              THEN [product EXCEPT !.Rating_Score = Strip(page.meta_rating.text)]
              ELSE product
        p2 == IF page.meta_count.state = "found" /\ page.meta_count.text # ""
              THEN [p1 EXCEPT !.Review_Count = Strip(page.meta_count.text)]
              ELSE p1
        stars == SearchStars(page.reviews_summary.text, 1)
        p3 == IF p2.Rating_Score = "" /\ page.reviews_summary.state = "found" /\ stars # ""
              THEN [p2 EXCEPT !.Rating_Score = stars]
              ELSE p2
        n == SearchReviews(Strip(page.reviews_text.text), 1)
    IN  IF p3.Review_Count = "" /\ page.reviews_text.state = "found" /\ n # ""
        THEN [p3 EXCEPT !.Review_Count = n]
        ELSE p3

scrape_pdp_ignoring_navigation(product, page) ==
    IF product.Product_URL = "" THEN product
    ELSE IF page.next_data = "raise" THEN product
    ELSE IF page.next_data = "badshape" THEN product
    ELSE LET p1 == FromDom(FromNextData(product, page), page)
         IN  IF ~page.scroll_ok THEN p1
             ELSE FromReviews(p1, page)

scrape_pdp(product, page) ==
    IF product.Product_URL = "" THEN product
    ELSE IF page.nav # "ok" THEN product              \* page.goto raised
    ELSE IF page.next_data = "raise" THEN product     \* page.evaluate raised
    ELSE IF page.next_data = "badshape" THEN product  \* AttributeError leaves the inner try
    ELSE LET p1 == FromDom(FromNextData(product, page), page)
         IN  IF ~page.scroll_ok THEN p1               \* page.evaluate raised
             ELSE FromReviews(p1, page)

\* ------------------------------------------------------------ detail pages offered
NoSelectedProduct ==
    [present |-> FALSE, productDescription |-> "", reasonToBuy |-> "", subtitle |-> "",
     sizes |-> <<>>, localizedLabelPrefix |-> ""]
NoInitialState ==
    [present |-> FALSE, product |-> [kind |-> "absent"], Product |-> [kind |-> "absent"]]
NoSizeGrid == [state |-> "missing", labels |-> <<>>]

\* a page on which nothing is found
BlankPage ==
    [nav |-> "ok", next_data |-> "none", sp |-> NoSelectedProduct, state |-> NoInitialState,
     dom_description |-> Missing, dom_preview |-> Missing, dom_sizes |-> NoSizeGrid,
     dom_promo |-> Missing, scroll_ok |-> TRUE, meta_rating |-> Missing,
     meta_count |-> Missing, reviews_summary |-> Missing, reviews_text |-> Missing]

Size(status, label) ==
    [status |-> status, label |-> label, localizedLabel |-> "",
     hasPrefix |-> FALSE, localizedLabelPrefix |-> ""]

\* a page of the current format with everything present
FullPage ==
    [BlankPage EXCEPT
        !.next_data = "json",
        !.sp = [present |-> TRUE, productDescription |-> "<p>Light  foam</p>",
                reasonToBuy |-> "", subtitle |-> "Shoes",
                sizes |-> <<Size("ACTIVE", "8"), Size("OOS", "9"), Size("LOW", "10")>>,
                localizedLabelPrefix |-> "US"],
        !.meta_rating = Loc("found", "4.7"),
        !.meta_count = Loc("found", "610")]

\* a page that only the DOM fallbacks can read
DomPage ==
    [BlankPage EXCEPT
        !.dom_preview = Loc("found", " Soft knit "),
        !.dom_sizes = [state |-> "found", labels |-> <<"EU 40", " ", "EU 41">>],
        !.dom_promo = Loc("found", "Limited Time Offer"),
        !.reviews_summary = Loc("found", "<p>4.8 stars</p>"),
        !.reviews_text = Loc("found", "Reviews (12)")]

\* the older format: no selectedProduct, product under initialState
LegacyPage ==
    [BlankPage EXCEPT
        !.next_data = "json",
        !.state = [present |-> TRUE,
                   product |-> [kind |-> "dict", descriptionPreview |-> " Old foam ",
                                description |-> "",
                                skus |-> <<[available |-> TRUE, localizedSize |-> "",
                                            nikeSize |-> "7"],
                                           [available |-> FALSE, localizedSize |-> "8",
                                            nikeSize |-> "8"]>>],
                   Product |-> [kind |-> "absent"]]]

\* both formats at once, the selectedProduct without description and with no
\* size in stock
ThinPage ==
    [LegacyPage EXCEPT
        !.sp = [present |-> TRUE, productDescription |-> "", reasonToBuy |-> "",
                subtitle |-> "", sizes |-> <<Size("OOS", "9")>>,
                localizedLabelPrefix |-> "US"]]

\* every source offers its own value for every field
EveryTierPage ==
    [FullPage EXCEPT
        !.state = LegacyPage.state,
        !.dom_description = Loc("found", "Dom text"),
        !.dom_sizes = [state |-> "found", labels |-> <<"EU 40">>],
        !.dom_promo = Loc("found", "Limited Time Offer"),
        !.reviews_summary = Loc("found", "<p>4.8 stars</p>"),
        !.reviews_text = Loc("found", "Reviews (12)")]

\* page.goto raised; the browser still shows whatever it showed
TimeoutPage == [EveryTierPage EXCEPT !.nav = "timeout"]

VisitPages ==
    {FullPage, DomPage, BlankPage, LegacyPage, ThinPage, EveryTierPage,
     TimeoutPage,
     [DomPage EXCEPT !.next_data = "raise"],
     [FullPage EXCEPT !.scroll_ok = FALSE]}

\* pages that leave the product as it was
QuietPages == {BlankPage, TimeoutPage}

\* ------------------------------------------------------------ main
Indices(products) == [k \in 1..Len(products) |-> k]

\* the product dicts a list of references holds
Deref(refs) == [k \in 1..Len(refs) |-> all_products[refs[k]]]

\* tagged = [p for p in all_products if p["Product_Tagging"]]
Tagged(products) ==
    SelectSeq(Indices(products), LAMBDA k : products[k].Product_Tagging # "")

EnrichmentInputOrEverything(products) ==
    LET tg == Tagged(products)
        vl == SelectSeq(tg, LAMBDA k : products[k].Discount_Price # "")
    IN  IF Len(vl) = 0 THEN Indices(products) ELSE vl

\* valid = [p for p in tagged if p["Discount_Price"]], or tagged when that is empty
EnrichmentInput(products) ==
    LET tg == Tagged(products)
        vl == SelectSeq(tg, LAMBDA k : products[k].Discount_Price # "")
    IN  IF Len(vl) = 0 THEN tg ELSE vl

\* Step 3: the tagging and discount filter.  The frame of collect_all_products
\* is gone once it has returned; only all_products lives on in main.
Filter ==
    /\ pc = "collected"
    /\ pc' = "enrich"
    /\ tagged' = Tagged(all_products)
    /\ valid' = EnrichmentInput(all_products)
    /\ completed' = <<>>
    /\ raw_json' = "unread"
    /\ total_resources' = 0
    /\ seen_codes' = {}
    /\ anchor' = 0
    /\ consecutive_errors' = 0
    /\ last' = NoFetch
    /\ okPages' = 0
    /\ streak' = 0
    /\ UNCHANGED <<raised, all_products, output_csv, checkpoint_csv, observed>>

CheckpointDueBeforeAppend(n) == (n - 1) % CHECKPOINT_EVERY = 0

\* if (i + 1) % CHECKPOINT_EVERY == 0, n being i + 1
CheckpointDue(n) == n % CHECKPOINT_EVERY = 0

\* the body of the loop over valid, on the page the browser meets: visit, append,
\* checkpoint
Visit(page) ==
    LET i == Len(completed)
        ref == valid[i + 1]
        updated == scrape_pdp(all_products[ref], page)
    IN  /\ all_products' = [all_products EXCEPT ![ref] = updated]
        /\ completed' = Append(completed, ref)
        /\ observed' = [observed EXCEPT !.lastVisit =
                            [ref |-> ref, page |-> page, before |-> all_products[ref]]]
        /\ checkpoint_csv' =
              IF CheckpointDue(i + 1)
              THEN File([k \in 1..(i + 1) |-> all_products'[completed'[k]]])
              ELSE checkpoint_csv
        /\ UNCHANGED <<pc, raised, raw_json, total_resources, seen_codes, anchor,
                       consecutive_errors, last, okPages, streak,
                       tagged, valid, output_csv>>

\* one iteration of the loop over valid
VisitPdp ==
    /\ pc = "enrich"
    /\ Len(completed) < Len(valid)
    /\ \E page \in VisitPages : Visit(page)

\* Step 4: save the final CSV and remove the checkpoint
SaveFinal ==
    /\ pc = "enrich"
    /\ Len(completed) = Len(valid)
    /\ pc' = "done"
    /\ output_csv' = File(Deref(completed))
    /\ checkpoint_csv' = Absent
    /\ UNCHANGED <<raised, harvestVars, tagged, valid, completed, observed>>

Next ==
    \/ HarvestInit
    \/ FetchPage
    \/ LoopExit
    \/ Filter
    \/ VisitPdp
    \/ SaveFinal

Spec == Init /\ [][Next]_vars

\* ------------------------------------------------------------ a long enrichment
\* the product of the k-th group of a listing of distinct, tagged, discounted groups
ListedItem(k) ==
    parse_product_from_json(<<Variant("SC" \o Dec(k), "Sale", 1000, 800)>>).item

\* sizes of the enrichment input: none, the 20 of the end-to-end scenario, and
\* those around each multiple of CHECKPOINT_EVERY
ItemCounts ==
    {0, 20} \cup {n \in {k * CHECKPOINT_EVERY + d : k \in 0..MaxBatches, d \in {-1, 0, 1}} :
                      n >= 0}

\* main after the filter, for a harvest of n qualifying items
InitEnrich ==
    /\ pc = "enrich"
    /\ raised = "none"
    /\ raw_json = "unread"
    /\ total_resources = 0
    /\ \E n \in ItemCounts :
        /\ all_products = [k \in 1..n |-> ListedItem(k)]
        /\ tagged = [k \in 1..n |-> k]
        /\ valid = [k \in 1..n |-> k]
    /\ seen_codes = {}
    /\ anchor = 0
    /\ consecutive_errors = 0
    /\ last = NoFetch
    /\ okPages = 0
    /\ streak = 0
    /\ completed = <<>>
    /\ output_csv = Absent
    /\ checkpoint_csv = Absent
    /\ observed = Unobserved

\* the same iteration; past the first item the page is one that changes nothing
VisitPdpLong ==
    /\ pc = "enrich"
    /\ Len(completed) < Len(valid)
    /\ \E page \in (IF Len(completed) = 0 THEN VisitPages ELSE QuietPages) : Visit(page)

NextEnrich ==
    \/ VisitPdpLong
    \/ SaveFinal

SpecEnrich == InitEnrich /\ [][NextEnrich]_vars

\* ------------------------------------------------------------ the normaliser alone
\* groups of 0..MaxVariants variants, the first with these prices (0 stands
\* for a missing key as well: prices.get(key, 0))
NormaliserInputs ==
    {<<>>} \cup
    {[k \in 1..n |-> IF k = 1 THEN Variant("DV0833", badge, initial, current)
                     ELSE Variant("DV0833", "", 1000, 1000)] :
        n \in 1..MaxVariants, badge \in {"", "Sale"},
        initial \in {0, 1000, null}, current \in {0, 800, 1000, 1200, null}}

InitNormalise ==
    /\ pc = "normalise"
    /\ observed \in {[Unobserved EXCEPT !.grouping = g] : g \in NormaliserInputs}
    /\ raised = "none"
    /\ raw_json = "unread"
    /\ total_resources = 0
    /\ all_products = <<>>
    /\ seen_codes = {}
    /\ anchor = 0
    /\ consecutive_errors = 0
    /\ last = NoFetch
    /\ okPages = 0
    /\ streak = 0
    /\ tagged = <<>>
    /\ valid = <<>>
    /\ completed = <<>>
    /\ output_csv = Absent
    /\ checkpoint_csv = Absent

\* prod = parse_product_from_json(g)
Normalise ==
    /\ pc = "normalise"
    /\ observed' = [observed EXCEPT !.parsed = parse_product_from_json(grouping)]
    /\ pc' = "normalised"
    /\ UNCHANGED <<raised, harvestVars, tagged, valid, completed, output_csv,
                   checkpoint_csv>>

SpecNormalise == InitNormalise /\ [][Normalise]_vars

\* ------------------------------------------------------------ the rating ranking
\* floats are held in hundredths
Scale == 100

DigitVal(c) == CHOOSE d \in 0..9 : Digit(d) = c

RECURSIVE Num(_)
Num(s) == IF Len(s) = 0 THEN 0 ELSE Num(SubSeq(s, 1, Len(s) - 1)) * 10 + DigitVal(Ch(s, Len(s)))

AllDigits(s) == \A i \in 1..Len(s) : Ch(s, i) \in DigitChars

\* float(s) for a string, null when it raises ValueError; of the strings float
\* accepts, unsigned decimals of up to two fraction digits are offered
ParseFloat(s) ==
    LET dot == FindFrom(s, ".", 1)
        ip == IF dot = 0 THEN s ELSE SubSeq(s, 1, dot - 1)
        fp == IF dot = 0 THEN "" ELSE SubSeq(s, dot + 1, Len(s))
    IN  IF ~AllDigits(ip) \/ ~AllDigits(fp) \/ Len(ip) + Len(fp) = 0 \/ Len(fp) > 2
        THEN null
        ELSE Num(ip) * Scale
             + (IF Len(fp) = 1 THEN Num(fp) * 10 ELSE Num(fp))

\* float(p.get(key, 0) or 0), 0 on ValueError
ToNumber(text) ==
    IF text = "" THEN 0
    ELSE LET v == ParseFloat(text) IN IF v = null THEN 0 ELSE v

\* {**p, "_rs": rs, "_rc": rc} for the products with rc > 150
RECURSIVE Eligible(_)
Eligible(ps) ==
    IF Len(ps) = 0 THEN <<>>
    ELSE LET p == Head(ps)
             rc == ToNumber(p.Review_Count)
         IN  (IF rc > MIN_REVIEWS * Scale
              THEN <<[p |-> p, rs |-> ToNumber(p.Rating_Score), rc |-> rc]>>
              ELSE <<>>) \o Eligible(Tail(ps))

\* the sort key (_rs, _rc), compared as tuples
KeyGE(a, b) == a.rs > b.rs \/ (a.rs = b.rs /\ a.rc >= b.rc)

\* eligible.sort(key=..., reverse=True): stable, equal keys keep their order
RECURSIVE InsertDesc(_, _)
InsertDesc(sorted, x) ==
    IF Len(sorted) = 0 THEN <<x>>
    ELSE IF KeyGE(Head(sorted), x) THEN <<Head(sorted)>> \o InsertDesc(Tail(sorted), x)
    ELSE <<x>> \o sorted

RECURSIVE SortDesc(_, _)
SortDesc(items, sorted) ==
    IF Len(items) = 0 THEN sorted
    ELSE SortDesc(Tail(items), InsertDesc(sorted, Head(items)))

NextRankByRating(current_rank, item, prev) ==
    IF item.rs # prev.rs THEN current_rank + 1 ELSE current_rank

\* if item["_rs"] != prev_rs or item["_rc"] != prev_rc: current_rank += 1
NextRank(current_rank, item, prev) ==
    IF item.rs # prev.rs \/ item.rc # prev.rc THEN current_rank + 1 ELSE current_rank

\* the ranking loop
RECURSIVE Ranked(_, _, _)
Ranked(items, current_rank, prev) ==
    IF Len(items) = 0 THEN <<>>
    ELSE LET item == Head(items)
             rank == NextRank(current_rank, item, prev)
         IN  <<[Rank |-> rank, Style_Code |-> item.p.Style_Code,
                Rating_Score |-> item.p.Rating_Score,
                Review_Count |-> item.p.Review_Count]>>
             \o Ranked(Tail(items), rank, item)

\* the rows of top_20_rating_review.csv
create_top20_rating_csv(ps) ==
    LET ranked == Ranked(SortDesc(Eligible(ps), <<>>), 0, [rs |-> null, rc |-> null])
    IN  SubSeq(ranked, 1, IF Len(ranked) < TOP_N THEN Len(ranked) ELSE TOP_N)

\* a completed product with this rating and review count
Rated(code, rating, count) ==
    [Style_Code |-> code, Rating_Score |-> rating, Review_Count |-> count]

RatedItems ==
    {Rated("DV0833", "4.8", "300"), Rated("FQ1234", "4.80", "300"),
     Rated("DV0833", "4.7", "400"), Rated("DV0833", "4.7", "200"),
     Rated("DV0833", "", "151"), Rated("DV0833", "4.9", "150"),
     Rated("DV0833", "5", "1,234")}

\* every list of up to MaxRanked of these, and lists longer than the top 20
RankingInputs ==
    SeqsUpTo(RatedItems, MaxRanked)
    \cup {[k \in 1..n |-> Rated("SC" \o Dec(k), "4.8", Dec(MIN_REVIEWS + 1 + (k % 3)))] :
            n \in {TOP_N, TOP_N + 1, TOP_N + 2}}

InitRanking ==
    /\ pc = "rank"
    /\ observed \in {[Unobserved EXCEPT !.top20_input = ps] : ps \in RankingInputs}
    /\ raised = "none"
    /\ raw_json = "unread"
    /\ total_resources = 0
    /\ all_products = <<>>
    /\ seen_codes = {}
    /\ anchor = 0
    /\ consecutive_errors = 0
    /\ last = NoFetch
    /\ okPages = 0
    /\ streak = 0
    /\ tagged = <<>>
    /\ valid = <<>>
    /\ completed = <<>>
    /\ output_csv = Absent
    /\ checkpoint_csv = Absent

\* create_top20_rating_csv(completed)
CreateTop20 ==
    /\ pc = "rank"
    /\ observed' = [observed EXCEPT
                        !.top20_csv = File(create_top20_rating_csv(top20_input))]
    /\ pc' = "ranked"
    /\ UNCHANGED <<raised, harvestVars, tagged, valid, completed, output_csv,
                   checkpoint_csv>>

SpecRanking == InitRanking /\ [][CreateTop20]_vars

NextCounting ==
    \/ HarvestInit
    \/ FetchPageCounted
    \/ LoopExit
    \/ Filter
    \/ VisitPdp
    \/ SaveFinal

SpecCounting == Init /\ [][NextCounting]_vars

\* collect_all_products alone, with its scheduling: every awaited request
\* answers or raises (a response, an error status, a timeout), so an iteration
\* that can be taken is taken, and so is the exit of the loop
NextTerminating ==
    \/ HarvestInit
    \/ FetchOutcomeCounted
    \/ LoopExit

SpecTerminating ==
    Init /\ [][NextTerminating]_vars
         /\ WF_vars(FetchOutcomeCounted) /\ WF_vars(LoopExit)

\* ------------------------------------------------------------ properties
\* the loop condition holds: the next step is an iteration of the fetch loop
FetchStep == pc = "loop" /\ LoopCondition(anchor, total_resources, consecutive_errors)

\* C1: no two accumulated items share a Style_Code; while harvesting, items are
\* only appended (the earlier item under a code stays as it was), a record whose
\* code is already present is dropped, and the number appended is the number
\* counted as added.
C1_FirstRecordWins ==
    [][ LET old == all_products
            new == all_products'
        IN  /\ \A i, j \in 1..Len(new) : i # j => new[i].Style_Code # new[j].Style_Code
            /\ pc \in {"start", "loop"} =>
                  /\ Len(old) <= Len(new) /\ SubSeq(new, 1, Len(old)) = old
                  /\ seen_codes' = {new[k].Style_Code : k \in 1..Len(new)}
                  /\ Len(new) - Len(old) =
                        (IF FetchStep \/ pc = "start" THEN last'.added ELSE 0) ]_vars

\* a response in which a record normalised to a product and was dropped
C1_Witness ==
    /\ last.kind = "page"
    /\ last.items > last.added
    /\ Len(all_products) > 0

\* C2: when total_resources > PAGE_SIZE and every fetch attempt fails, the loop
\* ends after exactly MAX_ERRORS failed attempts and no failed attempt changes
\* the accumulated items.
C2_ExactlyFifteenAttempts ==
    [][ /\ (FetchStep /\ okPages = 0 /\ last'.kind \notin {"page", "empty"}) =>
              all_products' = all_products
        /\ (pc = "loop" /\ pc' = "collected" /\ okPages = 0 /\ last'.kind # "empty"
                /\ total_resources > API_PAGE_SIZE) =>
              streak = MAX_ERRORS ]_vars

\* C3: no request is issued at an anchor >= total_resources; unless the budget
\* is spent or a page came back empty the loop ends at the first anchor that is
\* >= total_resources; with total_resources = 48 and one successful API page it
\* ends with anchor = 48, that page being the last request.
C3_NoRequestPastTotal ==
    /\ last.kind \notin {"none", "snapshot"} => last.anchor < total_resources
    /\ (pc = "loop" /\ anchor >= total_resources) => ~ENABLED FetchPage
    /\ (pc = "collected" /\ consecutive_errors < MAX_ERRORS /\ last.kind # "empty") =>
          /\ anchor >= total_resources
          /\ anchor = API_PAGE_SIZE \/ anchor - API_PAGE_SIZE < total_resources
    /\ (pc = "collected" /\ total_resources = 2 * API_PAGE_SIZE /\ okPages = 1) =>
          /\ anchor = 2 * API_PAGE_SIZE
          /\ last.kind = "page" /\ last.anchor = API_PAGE_SIZE

C3_Witness ==
    /\ pc = "collected"
    /\ total_resources = 48
    /\ okPages = 1
    /\ anchor = 48

C5_RateLimitCoolsDown ==
    [][ (FetchStep /\ last'.kind = "status" /\ last'.status = 429) =>
            /\ consecutive_errors' = consecutive_errors + 1
            /\ last'.wait = "long"
            /\ last'.refresh = "none"
            /\ anchor' = anchor /\ pc' = "loop"
            /\ all_products' = all_products
            /\ consecutive_errors' < MAX_ERRORS =>
                  LoopCondition(anchor', total_resources', consecutive_errors') ]_vars

\* a 429 that made the count a multiple of 3
C5_Witness ==
    /\ last.kind = "status" /\ last.status = 429
    /\ consecutive_errors > 0 /\ consecutive_errors % 3 = 0
    /\ last.refresh = "none"

\* C6: on a non-OK response other than 429 the session refresh is started
\* exactly when consecutive_errors + 1 is a multiple of 3, and otherwise only the
\* short backoff is taken; the anchor stays, and the next request, made unless
\* the budget is now spent, is for the same anchor.  The counter the rule reads
\* grows with every failed iteration of any kind and is lowered only by a
\* successful non-empty page.
C6_RefreshEveryThird ==
    [][ /\ (FetchStep /\ last'.kind = "status" /\ last'.status # 429) =>
              /\ (last'.refresh # "none") <=> ((consecutive_errors + 1) % 3 = 0)
              /\ last'.refresh = "none" =>
                    /\ last'.wait = "short"
                    /\ consecutive_errors' = consecutive_errors + 1
              /\ anchor' = anchor /\ pc' = "loop"
              /\ consecutive_errors' < MAX_ERRORS =>
                    LoopCondition(anchor', total_resources', consecutive_errors')
        /\ (FetchStep /\ last'.kind \in {"exception", "badrecord", "status"}) =>
              consecutive_errors' > consecutive_errors
        /\ (FetchStep /\ consecutive_errors' < consecutive_errors) =>
              last'.kind = "page" ]_vars

\* a refresh carried out on the sixth consecutive error
C6_Witness ==
    /\ last.kind = "status" /\ last.status = 403
    /\ last.refresh = "done"
    /\ consecutive_errors = 6

\* C7: an OK response whose productGroupings is empty ends the loop at once:
\* the counter, the anchor and the accumulated items stay as they are, the
\* anchor still below total_resources, and the only step that follows is main's
\* filter, on the list as accumulated.
C7_EmptyPageEndsLoop ==
    [][ /\ (FetchStep /\ last'.kind \notin {"exception", "status"} /\ last'.records = 0) =>
              /\ pc' = "collected"
              /\ consecutive_errors' = consecutive_errors
              /\ anchor' = anchor /\ anchor' < total_resources'
              /\ all_products' = all_products
        /\ pc = "collected" => (pc' = "enrich" /\ all_products' = all_products) ]_vars

C7_Witness ==
    /\ pc = "collected"
    /\ last.kind = "empty"
    /\ anchor < total_resources
    /\ consecutive_errors > 0
    /\ Len(all_products) > 0

\* C8: with no snapshot element on the page collect_all_products raises with
\* nothing accumulated and no request issued, and the run ends there: nothing is
\* filtered, visited or written.
C8_MissingSnapshotIsFatal ==
    raw_json = "absent" =>
        /\ pc = "raised" /\ raised # "none"
        /\ all_products = <<>> /\ seen_codes = {}
        /\ last = NoFetch /\ okPages = 0
        /\ tagged = <<>> /\ valid = <<>> /\ completed = <<>>
        /\ output_csv = Absent /\ checkpoint_csv = Absent
        /\ ~ENABLED Next

C8_Witness ==
    /\ raw_json = "absent"
    /\ pc = "raised"
    /\ raised = "RuntimeError"

\* C9: collect_all_products raises only when the snapshot element is missing
\* (or has no text).
C9_OnlyMissingSnapshotRaises ==
    raised # "none" => raw_json \in {"absent", "empty"}

\* C10: the enrichment input is, in harvest order, the tagged items with a
\* discount price when there is one, and all the tagged items otherwise; it
\* never holds an item with empty tagging.
C10_EnrichmentInput ==
    pc \in {"enrich", "done"} =>
        LET all == 1..Len(all_products)
            T == {k \in all : all_products[k].Product_Tagging # ""}
            V == {k \in T : all_products[k].Discount_Price # ""}
        IN  /\ \A i, j \in 1..Len(valid) : i < j => valid[i] < valid[j]
            /\ {valid[i] : i \in 1..Len(valid)} = (IF V # {} THEN V ELSE T)
            /\ \A i \in 1..Len(valid) : all_products[valid[i]].Product_Tagging # ""

\* the fallback: nothing is both tagged and discounted, an untagged item is left out
C10_Witness ==
    /\ pc = "enrich"
    /\ Len(valid) > 0
    /\ \A i \in 1..Len(valid) : all_products[valid[i]].Discount_Price = ""
    /\ \E k \in 1..Len(all_products) : all_products[k].Product_Tagging = ""

\* C11: every iteration of the enrichment loop takes the next item of the input
\* and appends it to completed, whatever the page; a visit whose navigation
\* failed leaves every product as it was; the loop goes on to the end of the
\* input, so that completed, and the export, are the input item for item (20
\* items: 20 visits).
C11_EveryItemOnce ==
    [][ /\ (pc = "enrich" /\ Len(completed) < Len(valid)) =>
              /\ pc' = "enrich" /\ valid' = valid
              /\ completed' = Append(completed, valid[Len(completed) + 1])
              /\ lastVisit'.ref = valid[Len(completed) + 1]
              /\ lastVisit'.page.nav # "ok" => all_products' = all_products
        /\ pc' = "done" =>
              /\ completed' = valid
              /\ output_csv'.exists /\ Len(output_csv'.rows) = Len(valid) ]_vars

\* 20 items, the last visit a timeout, the export written
C11_Witness ==
    /\ pc = "done"
    /\ Len(valid) = 20 /\ Len(completed) = 20 /\ Len(output_csv.rows) = 20
    /\ lastVisit.ref = valid[20]
    /\ lastVisit.page.nav = "timeout"

\* C12: an iteration of the enrichment loop writes the checkpoint file exactly
\* when the number of completed items has become a multiple of CHECKPOINT_EVERY,
\* with all the items completed so far, and otherwise leaves the file alone;
\* once the final export is saved there is no checkpoint file; with fewer than
\* CHECKPOINT_EVERY items there never is one.
C12_CheckpointEveryNth ==
    [][ /\ (pc = "enrich" /\ Len(completed) < Len(valid)) =>
              IF (Len(completed) + 1) % CHECKPOINT_EVERY = 0
              THEN /\ checkpoint_csv'.exists
                   /\ Len(checkpoint_csv'.rows) = Len(completed) + 1
                   /\ checkpoint_csv'.rows =
                        [k \in 1..Len(completed') |-> all_products'[completed'[k]]]
              ELSE checkpoint_csv' = checkpoint_csv
        /\ pc' = "done" => checkpoint_csv' = Absent
        /\ Len(valid) < CHECKPOINT_EVERY => checkpoint_csv' = Absent ]_vars

\* the second checkpoint, one item later
C12_Witness ==
    /\ pc = "enrich"
    /\ Len(completed) = 2 * CHECKPOINT_EVERY + 1
    /\ checkpoint_csv.exists
    /\ Len(checkpoint_csv.rows) = 2 * CHECKPOINT_EVERY

\* C13: once navigation has succeeded, a step of scrape_pdp that fails (the
\* read of the embedded JSON, the lazy-load scroll) costs only its own fields:
\* the product comes out as the later steps make it.
C13_StepsIndependentlyGuarded ==
    (lastVisit.ref # 0 /\ lastVisit.before.Product_URL # ""
        /\ lastVisit.page.nav = "ok") =>
        LET page == lastVisit.page
            before == lastVisit.before
            after == all_products[lastVisit.ref]
        IN  after = FromReviews(FromDom(FromNextData(before, page), page), page)

\* C14: in a visit a field that is non-empty after one tier has the same value
\* after every later tier: the listing's voucher and the selectedProduct's
\* description and sizes survive the initialState tier and the DOM tier, and a
\* rating or review count read from the meta elements survives the fallbacks.
C14_LaterTiersFillOnlyEmpty ==
    (lastVisit.ref # 0 /\ lastVisit.before.Product_URL # ""
        /\ lastVisit.page.nav = "ok" /\ lastVisit.page.next_data \in {"json", "none"}) =>
        LET page == lastVisit.page
            before == lastVisit.before
            after == all_products[lastVisit.ref]
            s1 == IF page.next_data = "json" THEN FromSelectedProduct(before, page.sp)
                  ELSE before
            s2 == IF page.next_data = "json" THEN FromInitialState(s1, page.state) ELSE s1
            Kept(a, b, f) == a[f] # "" => b[f] = a[f]
            Meta(loc) == loc.state = "found" /\ loc.text # ""
        IN  /\ Kept(before, after, "Vouchers")
            /\ \A f \in {"Product_Description", "Sizes_Available", "Vouchers"} :
                  /\ Kept(s1, s2, f)
                  /\ Kept(s2, after, f)
                  /\ Kept(s1, after, f)
            /\ (page.scroll_ok /\ Meta(page.meta_rating)) =>
                  after.Rating_Score = Strip(page.meta_rating.text)
            /\ (page.scroll_ok /\ Meta(page.meta_count)) =>
                  after.Review_Count = Strip(page.meta_count.text)

\* every tier had a value of its own to offer; the first one stands
C14_Witness ==
    /\ lastVisit.ref # 0
    /\ lastVisit.page = EveryTierPage
    /\ lastVisit.before.Vouchers = "Member Offer"
    /\ all_products[lastVisit.ref].Vouchers = "Member Offer"
    /\ all_products[lastVisit.ref].Product_Description = "Light foam"
    /\ all_products[lastVisit.ref].Sizes_Available = "US 8, US 10"
    /\ all_products[lastVisit.ref].Rating_Score = "4.7"
    /\ all_products[lastVisit.ref].Review_Count = "610"

\* C19 as stated: on a page whose embedded JSON has a selectedProduct object the
\* description and the sizes come out as they would without the initialState
\* block.
C19_OlderShapeOnlyWithoutSelectedProduct ==
    (lastVisit.ref # 0 /\ lastVisit.before.Product_URL # ""
        /\ lastVisit.page.nav = "ok" /\ lastVisit.page.next_data = "json"
        /\ lastVisit.page.sp.present) =>
        LET page == lastVisit.page
            after == all_products[lastVisit.ref]
            without == FromDom(FromSelectedProduct(lastVisit.before, page.sp), page)
        IN  /\ after.Product_Description = without.Product_Description
            /\ after.Sizes_Available = without.Sizes_Available

\* C19: the initialState block is read whether or not there is a selectedProduct
\* object; it supplies the description (the sizes) exactly when the field is
\* still empty after the selectedProduct tier and the block has a value to give,
\* and a value the selectedProduct tier gave is kept.
C19_OlderShapeFillsEmptyFields ==
    (lastVisit.ref # 0 /\ lastVisit.before.Product_URL # ""
        /\ lastVisit.page.nav = "ok" /\ lastVisit.page.next_data = "json"
        /\ lastVisit.page.state.present /\ lastVisit.page.state.product.kind = "dict") =>
        LET page == lastVisit.page
            after == all_products[lastVisit.ref]
            s1 == FromSelectedProduct(lastVisit.before, page.sp)
            old == page.state.product
            d == Strip(IF old.descriptionPreview # "" THEN old.descriptionPreview
                       ELSE old.description)
            sz == Join(SkuSizes(old.skus))
        IN  /\ after.Product_Description =
                  IF s1.Product_Description # "" THEN s1.Product_Description ELSE d
            /\ after.Sizes_Available =
                  IF s1.Sizes_Available # "" THEN s1.Sizes_Available ELSE sz

\* a selectedProduct object without description and with nothing in stock: both
\* fields come from the initialState block
C19_Witness ==
    /\ lastVisit.ref # 0
    /\ lastVisit.page = ThinPage
    /\ lastVisit.page.sp.present
    /\ all_products[lastVisit.ref].Product_Description = "Old foam"
    /\ all_products[lastVisit.ref].Sizes_Available = "7"

\* C20: an item whose navigation failed differs, in the completed set, from the
\* same item visited on a page that has nothing to offer.
C20_FailedVisitIsMarked ==
    (lastVisit.ref # 0 /\ lastVisit.before.Product_URL # ""
        /\ lastVisit.page.nav # "ok") =>
        all_products[lastVisit.ref] # scrape_pdp(lastVisit.before, BlankPage)

\* C17: a group without variants normalises to "no item", nothing raised, and
\* in a response the harvester passes over it: a response of such groups only
\* adds nothing, counts nothing as added and leaves the error counter at 0, and
\* in any page every other group yields its item; the item of a group of one
\* variant reads "1 Colour", that of n # 1 variants "n Colours".
C17_EmptyGroupSkipped ==
    [][ /\ \A g \in Groupings :
              /\ Len(g) = 0 => Normalised[g] = NoItem
              /\ Normalised[g].kind = "item" =>
                    Normalised[g].item.Available_Colors =
                        (IF Len(g) = 1 THEN "1 Colour" ELSE Dec(Len(g)) \o " Colours")
        /\ (FetchStep /\ last'.records > 0 /\ last'.empties = last'.records) =>
              /\ last'.kind = "page"
              /\ last'.items = 0 /\ last'.added = 0
              /\ all_products' = all_products
              /\ consecutive_errors' = 0
        /\ (FetchStep /\ last'.kind = "page") =>
              last'.items = last'.records - last'.empties ]_vars

\* a page with a group without variants and a group that was added, on a retry
C17_Witness ==
    /\ last.kind = "page"
    /\ last.empties > 0
    /\ last.added > 0
    /\ last.retry
    /\ consecutive_errors = 0

\* C18: every failed iteration of the fetch loop adds exactly one to
\* consecutive_errors and leaves the anchor and the accumulated items as they
\* were, the loop going on at the same anchor unless the budget is spent.
C18_FailedAttemptCountsOnce ==
    [][ (FetchStep /\ last'.kind \in {"exception", "badrecord", "status"}) =>
            /\ consecutive_errors' = consecutive_errors + 1
            /\ anchor' = anchor
            /\ all_products' = all_products
            /\ pc' = "loop" ]_vars

\* C15: the rows written are the eligible items in descending order of
\* (rating, review count), at most TOP_N of them; the first has rank 1 and each
\* later one the rank of the row before it when both numbers are equal, and
\* that rank plus 1 otherwise; so two rows share a rank iff both numbers are
\* equal; the keys (4.8,300),(4.8,300),(4.7,400),(4.7,200) get 1,1,2,3.
C15_DenseRanks ==
    pc = "ranked" =>
        LET rows == top20_csv.rows
            rs(i) == ToNumber(rows[i].Rating_Score)
            rc(i) == ToNumber(rows[i].Review_Count)
            eligible == {k \in 1..Len(top20_input) :
                            ToNumber(top20_input[k].Review_Count) > MIN_REVIEWS * Scale}
        IN  /\ Len(rows) = IF Cardinality(eligible) < TOP_N THEN Cardinality(eligible)
                           ELSE TOP_N
            /\ Len(rows) > 0 => rows[1].Rank = 1
            /\ \A i \in 2..Len(rows) :
                  /\ rs(i - 1) > rs(i) \/ (rs(i - 1) = rs(i) /\ rc(i - 1) >= rc(i))
                  /\ rows[i].Rank = IF rs(i) = rs(i - 1) /\ rc(i) = rc(i - 1)
                                    THEN rows[i - 1].Rank ELSE rows[i - 1].Rank + 1
            /\ \A i, j \in 1..Len(rows) :
                  (rows[i].Rank = rows[j].Rank) <=> (rs(i) = rs(j) /\ rc(i) = rc(j))
            /\ top20_input = <<Rated("DV0833", "4.7", "200"), Rated("DV0833", "4.8", "300"),
                               Rated("DV0833", "4.7", "400"), Rated("FQ1234", "4.80", "300")>>
                  => [i \in 1..Len(rows) |-> rows[i].Rank] = <<1, 1, 2, 3>>

\* the four keys of the example, given out of order
C15_Witness ==
    /\ pc = "ranked"
    /\ top20_input = <<Rated("DV0833", "4.7", "200"), Rated("DV0833", "4.8", "300"),
                       Rated("DV0833", "4.7", "400"), Rated("FQ1234", "4.80", "300")>>
    /\ Len(top20_csv.rows) = 4
    /\ top20_csv.rows[4].Rank = 3

\* C16: for a group with at least one variant the normaliser returns an item
\* whose Discount_Price is the formatted current price when the first variant's
\* current price is below its initial price and above 0, and is empty otherwise.
C16_DiscountRule ==
    (pc = "normalised" /\ Len(grouping) >= 1) =>
        LET initial == grouping[1].initialPrice
            current == grouping[1].currentPrice
            lower == initial # null /\ current # null /\ current < initial /\ current > 0
        IN  /\ parsed.kind = "item"
            /\ parsed.item.Discount_Price = IF lower THEN fmt_price(current) ELSE ""

\* C21: for every finite total_resources and every sequence of fetch outcomes
\* the fetch loop ends; when it ends, anchor >= total_resources, or
\* consecutive_errors >= MAX_ERRORS, or the last response was a success with
\* no groups; and no page window (anchor value) sees more than MAX_ERRORS
\* requests, the request being issued counted.
C21_LoopTerminates ==
    /\ (pc = "loop") ~> (pc = "collected")
    /\ [][ (pc = "loop" /\ pc' # "loop") =>
              /\ pc' = "collected"
              /\ \/ anchor' >= total_resources
                 \/ consecutive_errors' >= MAX_ERRORS
                 \/ last'.kind = "empty" /\ last'.records = 0 ]_vars
    /\ [][ FetchStep => streak + 1 <= MAX_ERRORS ]_vars

\* the loop has ended on the budget in a later window, after MAX_ERRORS
\* requests at that anchor
C21_Witness ==
    /\ pc = "collected"
    /\ okPages >= 1
    /\ anchor < total_resources
    /\ consecutive_errors >= MAX_ERRORS
    /\ streak = MAX_ERRORS

\* C22: throughout the fetch loop anchor is a positive multiple of PAGE_SIZE;
\* it starts at PAGE_SIZE whatever the size of the snapshot batch and never
\* decreases; windows are requested in increasing order, none skipped: every
\* request is at the window after the successful non-empty responses so far,
\* and anchor moves, by one window, exactly on such a response.
C22_WindowsInOrder ==
    [][ /\ (pc = "start" /\ pc' = "loop") => anchor' = API_PAGE_SIZE /\ okPages' = 0
        /\ pc = "loop" =>
              /\ anchor >= API_PAGE_SIZE /\ anchor % API_PAGE_SIZE = 0
              /\ anchor = API_PAGE_SIZE * (okPages + 1)
              /\ anchor' >= anchor
        /\ FetchStep =>
              /\ last'.anchor = anchor
              /\ last.kind \notin {"none", "snapshot"} => last'.anchor >= last.anchor
              /\ IF last'.kind = "page" /\ last'.records > 0
                 THEN anchor' = anchor + API_PAGE_SIZE /\ okPages' = okPages + 1
                 ELSE anchor' = anchor /\ okPages' = okPages ]_vars

\* the third window was never requested before the second had answered with
\* groups, here on a retry
C22_Witness ==
    /\ okPages = 2
    /\ anchor = 3 * API_PAGE_SIZE
    /\ last.kind = "page" /\ last.anchor = 2 * API_PAGE_SIZE
    /\ last.retry

\* C23: enriching an item changes at most its description, sizes, voucher,
\* rating and review count: detail URL, image URL, tagging, name, original
\* price, discount price, colour count, shown colour and style code are the
\* same after scrape_pdp as before, for every outcome of the visit (success,
\* partial extraction, failure, empty URL); so what is completed and saved has
\* the style codes, tagging and prices of the enrichment input.
C23_EnrichmentFrame ==
    [][ LET Kept(p) == <<p.Product_URL, p.Product_Image_URL, p.Product_Tagging,
                         p.Product_Name, p.Original_Price, p.Discount_Price,
                         p.Available_Colors, p.Color_Shown, p.Style_Code>>
        IN  pc = "enrich" =>
              /\ valid' = valid
              /\ Len(all_products') = Len(all_products)
              /\ \A r \in 1..Len(all_products) :
                    Kept(all_products'[r]) = Kept(all_products[r])
              /\ lastVisit' # lastVisit =>
                    /\ lastVisit'.before = all_products[lastVisit'.ref]
                    /\ lastVisit'.before.Product_URL = "" =>
                          all_products' = all_products
              /\ pc' = "done" =>
                    /\ completed = valid
                    /\ output_csv'.rows = Deref(valid) ]_vars

\* a run that enriched one item from a full page and then met an item without
\* URL on a page offering every field
C23_Witness ==
    /\ pc = "done"
    /\ Len(output_csv.rows) = 2
    /\ output_csv.rows[1].Style_Code = "DV0833"
    /\ output_csv.rows[1].Product_Tagging = "Just In"
    /\ output_csv.rows[1].Rating_Score = "4.7"
    /\ output_csv.rows[2].Product_URL = ""
    /\ output_csv.rows[2].Style_Code = "FQ1234"
    /\ output_csv.rows[2].Product_Description = ""
    /\ lastVisit.page = EveryTierPage
====
